---- MODULE Spec2Model ----
(***************************************************************************)
(* Model of the UTXO storage layer of src/src/txdb.cpp: the primary coin   *)
(* database (CCoinsViewDB::db), the loaded-coin overlay                    *)
(* (CCoinsViewDB::loadedcoindb), the reorg-safe commit                     *)
(* CCoinsViewDB::BatchWrite with its engine flushes, process crashes and   *)
(* restarts, the two-tier lookups GetCoin / HaveCoin, the coin cursor      *)
(* (CCoinsViewDB::Cursor, CCoinsViewDBCursor), the migration of the legacy *)
(* per-transaction records (CCoinsViewDB::Upgrade) and the import of       *)
(* loaded coins (CCoinsViewDB::ReadLoadedCoins).                           *)
(***************************************************************************)
EXTENDS Integers, Sequences, FiniteSets, TLC

(* ------------------------------ bounds -------------------------------- *)
MaxOutPoints == 1     \* outpoints known to the model
MaxCoin == 1          \* distinct unspent coin contents are 1..MaxCoin
MaxTip == 2           \* block hashes are 1..MaxTip, 0 is the null hash
MaxEntries == 1       \* longest changeset handed to BatchWrite
SmallBatch == 1       \* a -dbbatchsize small enough to force partial batches
CrashRatio == 2       \* a non-zero -dbcrashratio
MediumBatch == 4      \* a -dbbatchsize that holds the marker and little more
MaxDrain == 3         \* longest changeset of a commit followed entry by entry
MaxLegacyTx == 2      \* legacy records are those of transactions 1..MaxLegacyTx
MaxVout == 2          \* outputs of a legacy record
MaxFile == 3          \* most coins loaded_coins.dat declares
MaxExport == 3        \* most coins handed to WriteMyLoadedCoins
MaxBlock == 3         \* block-index records are those of blocks 1..MaxBlock
MaxHeight == 2        \* heights of the persisted blocks are 1..MaxHeight
MaxIndex == 6         \* output indexes of the keys encoded are 0..MaxIndex
MaxHashByte == 1      \* bytes of the hashes encoded are 0..MaxHashByte

(* ---------------------- key discriminators ---------------------------- *)
DB_COIN == 67
DB_BEST_BLOCK == 66
DB_HEAD_BLOCKS == 72
DB_LOADED_COINS == 112
nDefaultDbBatchSize == 16
DB_COINS == 99
DB_BLOCK_INDEX == 98
DB_BLOCK_FILES == 102
DB_FLAG == 70
DB_LAST_BLOCK == 108
UpgradeBatchSize == 4  \* 1 << 24, to the scale of SizeEstimate
ImportBatchSize == 2   \* 4000000 coins, to the scale of MaxFile
CLIENT_VERSION == 210000
VarIntBase == 2        \* 128, the payload of a VARINT byte, to the scale of MaxIndex
HashLen == 2           \* 32, the bytes of a uint256, to the scale of MaxHashByte

(* ------------------------------ values -------------------------------- *)
NullHash == 0
Tips == 1..MaxTip
\* COutPoint (hash, n): the outputs 0 and 1 of transactions 1, 2, ...
OutPoints == { <<1 + (i \div 2), i % 2>> : i \in 0..(MaxOutPoints - 1) }

\* COutPoint::GetHash: a digest of the serialized outpoint.  Injective on
\* the outpoints of the model and not monotone in (hash, n).
GetHash(outpoint) == (7 * (2 * outpoint[1] + outpoint[2]) + 3) % 11

\* Coin: out = 0 is the null (spent) output; fLoaded is the transient marker.
Coin(out, fLoaded) == [out |-> out, fLoaded |-> fLoaded]
IsSpent(coin) == coin.out = 0

\* What the Coin serializer puts on disk: the marker is not part of it.
SerializeCoin(coin) == [out |-> coin.out]
\* Reading a stored coin into a freshly constructed Coin.
UnserializeCoin(rec) == Coin(rec.out, FALSE)

\* CCoinsCacheEntry: a coin and its DIRTY flag.
CacheEntry(outpoint, coin, dirty) == [outpoint |-> outpoint, coin |-> coin, dirty |-> dirty]
CacheEntries ==
    { CacheEntry(o, Coin(c, l), d) : o \in OutPoints, c \in 0..MaxCoin,
                                      l \in BOOLEAN, d \in BOOLEAN }

\* CCoinsMap in its iteration order: no outpoint twice.
ChangeSets ==
    { cs \in UNION { [1..n -> CacheEntries] : n \in 0..MaxEntries } :
        \A i, j \in 1..Len(cs) : i # j => cs[i].outpoint # cs[j].outpoint }

\* LoadedCoin: outpoint, coin and spent flag.
LoadedCoin(out, coin, fSpent) == [out |-> out, coin |-> coin, fSpent |-> fSpent]

(* -------------------------- key encoding ------------------------------ *)
\* CoinEntry serialization: the discriminator, the hash, the index.
CoinEntry(outpoint) == <<DB_COIN, outpoint[1], outpoint[2]>>
BestBlockKey == <<DB_BEST_BLOCK>>
HeadBlocksKey == <<DB_HEAD_BLOCKS>>
LoadedKey(h) == <<DB_LOADED_COINS, h>>

(* --------------------- the key-value engine --------------------------- *)
\* A database is a function from the keys present to their values.
EmptyDb == [k \in {} |-> 0]
Exists(d, key) == key \in DOMAIN d
Put(d, key, val) == [k \in (DOMAIN d) \cup {key} |-> IF k = key THEN val ELSE d[k]]
Del(d, key) == [k \in (DOMAIN d) \ {key} |-> d[k]]

\* CDBBatch operations.
BatchWriteOp(key, val) == [op |-> "write", key |-> key, val |-> val]
BatchEraseOp(key) == [op |-> "erase", key |-> key, val |-> 0]

\* CDBBatch::SizeEstimate: grows with every queued operation, a write
\* weighing more than an erase; Clear() empties the batch.
OpSize(o) == IF o.op = "write" THEN 2 ELSE 1
RECURSIVE SizeEstimate(_)
SizeEstimate(b) == IF b = <<>> THEN 0 ELSE OpSize(Head(b)) + SizeEstimate(Tail(b))

\* CDBWrapper::WriteBatch that succeeds: the operations applied in order,
\* atomically.
RECURSIVE ApplyBatch(_, _)
ApplyBatch(d, b) ==
    IF b = <<>> THEN d
    ELSE LET o == Head(b)
         IN ApplyBatch(IF o.op = "write" THEN Put(d, o.key, o.val) ELSE Del(d, o.key),
                       Tail(b))
\* CDBWrapper::WriteBatch: all of the batch or, when the engine fails, none.
WriteBatch(d, b, ok) == IF ok THEN ApplyBatch(d, b) ELSE d

VARIABLES
    db,              \* the chainstate database (durable)
    loadedcoindb,    \* the loaded-coin overlay database (durable)
    pc,              \* where the process is
    mapCoins,        \* the caller's changeset, as BatchWrite sees it
    it,              \* BatchWrite's iterator into mapCoins
    batch,           \* BatchWrite's pending CDBBatch
    hashBlock,       \* BatchWrite's new tip
    old_tip,         \* BatchWrite's old tip
    batch_size,      \* -dbbatchsize as read by BatchWrite
    crash_simulate,  \* -dbcrashratio as read by BatchWrite
    ret,             \* BatchWrite's return value
    preDb,           \* history: db when BatchWrite was entered
    cs0,             \* history: the changeset as passed to BatchWrite
    hNew,            \* history: the tip passed to BatchWrite
    flushes,         \* history: results of the engine writes of this BatchWrite
    exit,            \* history: how the process or the running call ended
    snap,            \* the view of db the open CDBIterator reads
    pcursor,         \* the key the open CDBIterator is at, <<>> when not Valid()
    keyTmp,          \* CCoinsViewDBCursor's cached key
    scanned,         \* history: the keys a cursor scan has yielded
    count,           \* Upgrade's record counter
    fRequestShutdown,\* the process-wide shutdown flag
    legacyDb,        \* history: the store as the older version left it
    cancelled,       \* history: an earlier Upgrade was stopped by the flag
    filein,          \* loaded_coins.dat as ReadLoadedCoins reads it
    read,            \* ReadLoadedCoins' number of coins read
    vLoadedCoin,     \* ReadLoadedCoins' pending vector
    preLoaded,       \* history: loadedcoindb when ReadLoadedCoins was entered
    myfile,          \* my_loaded_coins.dat on disk
    vExport,         \* history: the last call of WriteMyLoadedCoins
    vMine,           \* the vector ReadMyLoadedCoins returned
    blocktree,       \* the block index database (durable)
    mapBlockIndex,   \* the caller's arena of CBlockIndex nodes, by hash
    vLoaded,         \* history: the keys LoadBlockIndexGuts has loaded
    keyA, keyB,      \* two keys handed to the serializer
    encA, encB       \* their serializations

vars == <<db, loadedcoindb, pc, mapCoins, it, batch, hashBlock, old_tip, batch_size,
          crash_simulate, ret, preDb, cs0, hNew, flushes, exit, snap, pcursor,
          keyTmp, scanned, count, fRequestShutdown, legacyDb, cancelled, filein,
          read, vLoadedCoin, preLoaded, myfile, vExport, vMine, blocktree,
          mapBlockIndex, vLoaded, keyA, keyB, encA, encB>>

locals == <<mapCoins, it, batch, hashBlock, old_tip, batch_size, crash_simulate, ret>>
history == <<preDb, cs0, hNew, flushes, exit>>
\* What the cursor, the migration and the import work on.
scan == <<snap, pcursor, keyTmp, scanned>>
upgrade == <<count, fRequestShutdown, legacyDb, cancelled>>
import == <<filein, read, vLoadedCoin, preLoaded, myfile, vExport, vMine>>
index == <<blocktree, mapBlockIndex, vLoaded>>
codec == <<keyA, keyB, encA, encB>>
bulk == <<scan, upgrade, import, index, codec>>

(* ------------------------------ reads --------------------------------- *)
\* CCoinsViewDB::GetBestBlock
GetBestBlock(d) == IF Exists(d, BestBlockKey) THEN d[BestBlockKey] ELSE NullHash

\* CCoinsViewDB::GetHeadBlocks
GetHeadBlocks(d) == IF Exists(d, HeadBlocksKey) THEN d[HeadBlocksKey] ELSE <<>>

\* Byte-lexicographic order of encoded keys, the engine's comparator.
RECURSIVE KeyLess(_, _)
KeyLess(a, b) ==
    IF a = <<>> THEN b # <<>>
    ELSE IF b = <<>> THEN FALSE
    ELSE IF Head(a) # Head(b) THEN Head(a) < Head(b)
    ELSE KeyLess(Tail(a), Tail(b))

\* CDBIterator::Seek: the first key present that is not below `key`; the
\* empty key stands for an iterator that is not Valid().
Seek(d, key) ==
    LET at == { k \in DOMAIN d : ~KeyLess(k, key) }
    IN IF at = {} THEN <<>>
       ELSE CHOOSE k \in at : \A j \in at : ~KeyLess(j, k)

\* CCoinsViewDB::GetLoadedCoin: [found, coinOut]
NoLoadedCoin == LoadedCoin(<<0, 0>>, SerializeCoin(Coin(0, FALSE)), FALSE)
GetLoadedCoin(ldb, hashOutPoint) ==
    LET cur == Seek(ldb, LoadedKey(hashOutPoint))
    IN IF cur # <<>> /\ cur[2] = hashOutPoint
       THEN [found |-> TRUE, coinOut |-> ldb[cur]]
       ELSE [found |-> FALSE, coinOut |-> NoLoadedCoin]

\* CCoinsViewDB::HaveLoadedCoin
HaveLoadedCoin(ldb, hashOutPoint) == GetLoadedCoin(ldb, hashOutPoint).found

\* Mutant: the overlay is asked before the primary table.
GetCoinOverlayFirst(d, ldb, outpoint) ==
    LET l == GetLoadedCoin(ldb, GetHash(outpoint))
    IN IF l.found
       THEN [ret |-> ~l.coinOut.fSpent, coin |-> Coin(l.coinOut.coin.out, TRUE)]
       ELSE IF Exists(d, CoinEntry(outpoint))
       THEN [ret |-> TRUE, coin |-> UnserializeCoin(d[CoinEntry(outpoint)])]
       ELSE [ret |-> FALSE, coin |-> Coin(0, FALSE)]
\* CCoinsViewDB::GetCoin: [ret, coin], coin being the caller's object
\* after the call (it starts freshly constructed).
GetCoin(d, ldb, outpoint) ==
    IF Exists(d, CoinEntry(outpoint))
    THEN [ret |-> TRUE, coin |-> UnserializeCoin(d[CoinEntry(outpoint)])]
    ELSE LET l == GetLoadedCoin(ldb, GetHash(outpoint))
         IN IF l.found
            THEN [ret |-> ~l.coinOut.fSpent, coin |-> Coin(l.coinOut.coin.out, TRUE)]
            ELSE [ret |-> FALSE, coin |-> Coin(0, FALSE)]

\* CCoinsViewDB::HaveCoin
HaveCoin(d, ldb, outpoint) ==
    IF Exists(d, CoinEntry(outpoint)) THEN TRUE
    ELSE HaveLoadedCoin(ldb, GetHash(outpoint))

\* CDBIterator::Next: the first key present above `key`.
NextKey(d, key) ==
    LET above == { k \in DOMAIN d : KeyLess(key, k) }
    IN IF above = {} THEN <<>>
       ELSE CHOOSE k \in above : \A j \in above : ~KeyLess(j, k)

(* ------------------------------ Init ---------------------------------- *)
NoLocals ==
    /\ mapCoins = <<>> /\ it = 1 /\ batch = <<>> /\ hashBlock = NullHash
    /\ old_tip = NullHash /\ batch_size = 0 /\ crash_simulate = 0 /\ ret = FALSE
NoHistory ==
    /\ preDb = EmptyDb /\ cs0 = <<>> /\ hNew = NullHash /\ flushes = <<>> /\ exit = "no"

\* No cursor is open, no migration and no import has run.
NoKeyTmp == <<0, <<0, 0>>>>
NoFile == [isNull |-> TRUE, nVersionRequired |-> 0, count |-> 0, coins |-> <<>>]
NoKey == [key |-> 0, hash |-> <<>>, n |-> 0]
NoExport == [called |-> FALSE, opened |-> FALSE, coins |-> <<>>]
NoBulk ==
    /\ snap = EmptyDb /\ pcursor = <<>> /\ keyTmp = NoKeyTmp /\ scanned = <<>>
    /\ count = 0 /\ fRequestShutdown = FALSE /\ legacyDb = EmptyDb
    /\ cancelled = FALSE
    /\ filein = NoFile /\ read = 0 /\ vLoadedCoin = <<>> /\ preLoaded = EmptyDb
    /\ myfile = NoFile /\ vExport = NoExport /\ vMine = <<>>
    /\ blocktree = EmptyDb /\ mapBlockIndex = EmptyDb /\ vLoaded = <<>>
    /\ keyA = NoKey /\ keyB = NoKey /\ encA = <<>> /\ encB = <<>>

\* Both databases freshly created (CCoinsViewDB constructor), no call running.
Init ==
    /\ db = EmptyDb
    /\ loadedcoindb = EmptyDb
    /\ pc = "idle"
    /\ NoLocals
    /\ NoHistory
    /\ NoBulk

\* The frame of BatchWrite is gone / the history is forgotten.
ResetLocals ==
    /\ mapCoins' = <<>> /\ it' = 1 /\ batch' = <<>> /\ hashBlock' = NullHash
    /\ old_tip' = NullHash /\ batch_size' = 0 /\ crash_simulate' = 0 /\ ret' = FALSE
ResetHistory ==
    /\ preDb' = EmptyDb /\ cs0' = <<>> /\ hNew' = NullHash /\ flushes' = <<>>
    /\ exit' = "no"
\* The iterator is released.
ResetScan ==
    /\ snap' = EmptyDb /\ pcursor' = <<>> /\ keyTmp' = NoKeyTmp /\ scanned' = <<>>

(* -------------------------- BatchWrite -------------------------------- *)
\* Mutant: the marker of an interrupted commit is not consulted.
OldTipIgnoresHeads(d) == GetBestBlock(d)
\* Lines 116-124: the tip the store is at, taken from the head-blocks
\* marker when a commit was interrupted.
OldTip(d) ==
    IF GetBestBlock(d) = NullHash /\ Len(GetHeadBlocks(d)) = 2
    THEN GetHeadBlocks(d)[2]
    ELSE GetBestBlock(d)

\* Line 121: assert(old_heads[0] == hashBlock) is evaluated and fails.
\* Mutant: the heads are not compared with the new tip.
HeadsAssertOff(d, hb) == FALSE
HeadsAssertFails(d, hb) ==
    /\ GetBestBlock(d) = NullHash
    /\ Len(GetHeadBlocks(d)) = 2
    /\ GetHeadBlocks(d)[1] # hb

\* Mutant: the assertion compiled out.
NullAssertOff(hb) == FALSE
\* Line 114: assert(!hashBlock.IsNull())
NullAssertFails(hb) == hb = NullHash

\* Line 114 fails: the process aborts before anything is read or written.
BatchWriteNullAbort(cs, hb) ==
    /\ pc = "idle"
    /\ NullAssertFails(hb)
    /\ pc' = "aborted"
    /\ mapCoins' = cs
    /\ hashBlock' = hb
    /\ cs0' = cs
    /\ hNew' = hb
    /\ preDb' = db
    /\ exit' = "abort"
    /\ UNCHANGED <<db, loadedcoindb, it, batch, old_tip, batch_size,
                   crash_simulate, ret, flushes>>
    /\ UNCHANGED bulk

\* Line 121 fails: resuming an interrupted commit with another tip aborts.
BatchWriteHeadsAbort(cs, hb) ==
    /\ pc = "idle"
    /\ ~NullAssertFails(hb)
    /\ HeadsAssertFails(db, hb)
    /\ pc' = "aborted"
    /\ mapCoins' = cs
    /\ hashBlock' = hb
    /\ old_tip' = GetBestBlock(db)
    /\ cs0' = cs
    /\ hNew' = hb
    /\ preDb' = db
    /\ exit' = "abort"
    /\ UNCHANGED <<db, loadedcoindb, it, batch, batch_size,
                   crash_simulate, ret, flushes>>
    /\ UNCHANGED bulk

\* Mutant: the two heads written in the wrong order.
FirstBatchOpsSwapped(hb, ot) ==
    <<BatchEraseOp(BestBlockKey), BatchWriteOp(HeadBlocksKey, <<ot, hb>>)>>
\* Lines 130-131: the operations that open the first batch.
FirstBatchOps(hb, ot) ==
    <<BatchEraseOp(BestBlockKey), BatchWriteOp(HeadBlocksKey, <<hb, ot>>)>>

\* Mutant: the marker is left behind.
LastBatchOpsKeepHeads(hb) == <<BatchWriteOp(BestBlockKey, hb)>>
\* Lines 166-167: the operations that close the last batch.
LastBatchOps(hb) ==
    <<BatchEraseOp(HeadBlocksKey), BatchWriteOp(BestBlockKey, hb)>>

\* Lines 109-131: entry of BatchWrite up to the first two batch operations.
BatchWriteBegin(cs, hb, bs, cr) ==
    /\ pc = "idle"
    /\ ~NullAssertFails(hb)
    /\ ~HeadsAssertFails(db, hb)
    /\ pc' = "loop"
    /\ mapCoins' = cs
    /\ it' = 1
    /\ hashBlock' = hb
    /\ old_tip' = OldTip(db)
    /\ batch_size' = bs
    /\ crash_simulate' = cr
    /\ batch' = FirstBatchOps(hb, OldTip(db))
    /\ ret' = FALSE
    /\ preDb' = db
    /\ cs0' = cs
    /\ hNew' = hb
    /\ flushes' = <<>>
    /\ exit' = "no"
    /\ UNCHANGED <<db, loadedcoindb>>
    /\ UNCHANGED bulk

\* Removing the element the iterator is at (mapCoins.erase(itOld)).
EraseAt(m, i) == [j \in 1..(Len(m) - 1) |-> IF j < i THEN m[j] ELSE m[j + 1]]

\* Lines 140-147: what a changeset entry adds to the batch.
EntryOps(e) ==
    IF e.dirty
    THEN IF IsSpent(e.coin)
         THEN <<BatchEraseOp(CoinEntry(e.outpoint))>>
         ELSE <<BatchWriteOp(CoinEntry(e.outpoint), SerializeCoin(e.coin))>>
    ELSE <<>>

\* Mutant: no entry is stepped over.
SkipsNothing(e) == FALSE
\* Line 135: the entries BatchWrite steps over.
SkipsEntry(e) == e.coin.fLoaded

\* Lines 135-138: a loaded coin is stepped over.
LoopSkipLoadedForgetting ==
    /\ pc = "loop"
    /\ it <= Len(mapCoins)
    /\ SkipsEntry(mapCoins[it])
    /\ it' = it + 1
    /\ loadedcoindb' = EmptyDb
    /\ UNCHANGED <<db, pc, mapCoins, batch, hashBlock, old_tip,
                   batch_size, crash_simulate, ret, history>>
    /\ UNCHANGED bulk
LoopSkipLoaded ==
    /\ pc = "loop"
    /\ it <= Len(mapCoins)
    /\ SkipsEntry(mapCoins[it])
    /\ it' = it + 1
    /\ UNCHANGED <<db, loadedcoindb, pc, mapCoins, batch, hashBlock, old_tip,
                   batch_size, crash_simulate, ret, history>>
    /\ UNCHANGED bulk

\* Mutant: the batch may grow to twice the threshold.
ExceedsTwiceBatchSize(b, bs) == SizeEstimate(b) > 2 * bs
\* Line 151: the batch has outgrown -dbbatchsize.
ExceedsBatchSize(b, bs) == SizeEstimate(b) > bs

\* Lines 140-151: an entry is folded into the batch, which stays within
\* the threshold.
LoopEntry ==
    /\ pc = "loop"
    /\ it <= Len(mapCoins)
    /\ ~SkipsEntry(mapCoins[it])
    /\ ~ExceedsBatchSize(batch \o EntryOps(mapCoins[it]), batch_size)
    /\ batch' = batch \o EntryOps(mapCoins[it])
    /\ mapCoins' = EraseAt(mapCoins, it)
    /\ UNCHANGED <<db, loadedcoindb, pc, it, hashBlock, old_tip, batch_size,
                   crash_simulate, ret, history>>
    /\ UNCHANGED bulk

\* Lines 140-162: an entry is folded in, the batch exceeds the threshold
\* and is written (the engine answering ok) and cleared; `crash` is the
\* fault-injection hook ending the process.
LoopEntryFlush(ok, crash) ==
    /\ pc = "loop"
    /\ it <= Len(mapCoins)
    /\ ~SkipsEntry(mapCoins[it])
    /\ ExceedsBatchSize(batch \o EntryOps(mapCoins[it]), batch_size)
    /\ crash => crash_simulate # 0
    /\ (crash_simulate = 1) => crash
    /\ db' = WriteBatch(db, batch \o EntryOps(mapCoins[it]), ok)
    /\ flushes' = Append(flushes, ok)
    /\ IF crash
       THEN /\ pc' = "crashed"
            /\ exit' = "simcrash"
            /\ ResetLocals
       ELSE /\ batch' = <<>>
            /\ mapCoins' = EraseAt(mapCoins, it)
            /\ UNCHANGED <<pc, exit, it, hashBlock, old_tip, batch_size,
                           crash_simulate, ret>>
    /\ UNCHANGED <<loadedcoindb, preDb, cs0, hNew>>
    /\ UNCHANGED bulk

\* Lines 165-172: the last batch and the return value.
BatchWriteFinal(ok) ==
    /\ pc = "loop"
    /\ it > Len(mapCoins)
    /\ db' = WriteBatch(db, batch \o LastBatchOps(hashBlock), ok)
    /\ batch' = batch \o LastBatchOps(hashBlock)
    /\ flushes' = Append(flushes, ok)
    /\ ret' = ok
    /\ pc' = "done"
    /\ UNCHANGED <<loadedcoindb, mapCoins, it, hashBlock, old_tip, batch_size,
                   crash_simulate, preDb, cs0, hNew, exit>>
    /\ UNCHANGED bulk

\* The caller takes the result; BatchWrite's frame is gone.
Return ==
    /\ pc = "done"
    /\ pc' = "idle"
    /\ ResetLocals /\ ResetHistory
    /\ UNCHANGED <<db, loadedcoindb>>
    /\ UNCHANGED bulk

(* ----------------------- crash and restart ---------------------------- *)
\* The process is killed inside BatchWrite (up to its return): only the
\* databases survive.
Crash ==
    /\ pc \in {"loop", "done"}
    /\ pc' = "crashed"
    /\ exit' = "crash"
    /\ ResetLocals
    /\ UNCHANGED <<db, loadedcoindb, preDb, cs0, hNew, flushes>>
    /\ UNCHANGED bulk

\* The node is started again on the databases left behind.
Restart ==
    /\ pc \in {"crashed", "aborted"}
    /\ pc' = "restarted"
    /\ ResetLocals
    /\ UNCHANGED <<db, loadedcoindb, history>>
    /\ UNCHANGED bulk

\* Normal operation resumes.
Resume ==
    /\ pc = "restarted"
    /\ pc' = "idle"
    /\ ResetHistory
    /\ UNCHANGED <<db, loadedcoindb, locals>>
    /\ UNCHANGED bulk

(* -------------------------- the overlay ------------------------------- *)
\* The coins of the imported snapshot differ from those of the chain.
LoadedOut == MaxCoin + 1
LoadedCoins ==
    { LoadedCoin(o, SerializeCoin(Coin(LoadedOut, FALSE)), s) :
        o \in OutPoints, s \in BOOLEAN }

\* CCoinsViewDB::WriteLoadedCoinIndex for a one-element vector
\* (WriteToLoadedCoinIndex).
WriteToLoadedCoinIndex(coin, ok) ==
    /\ pc = "idle"
    /\ loadedcoindb' =
         WriteBatch(loadedcoindb,
                    <<BatchWriteOp(LoadedKey(GetHash(coin.out)), coin)>>, ok)
    /\ UNCHANGED <<db, pc, locals, history>>
    /\ UNCHANGED bulk

\* The (-dbbatchsize, -dbcrashratio) settings a node is run with.
DbConfigs == {<<SmallBatch, 0>>, <<SmallBatch, CrashRatio>>, <<nDefaultDbBatchSize, 0>>}

Next ==
    \/ /\ pc = "idle"
       /\ \E hb \in {NullHash} \cup Tips, cs \in ChangeSets : BatchWriteNullAbort(cs, hb)
    \/ /\ pc = "idle"
       /\ \E hb \in {NullHash} \cup Tips, cs \in ChangeSets : BatchWriteHeadsAbort(cs, hb)
    \/ /\ pc = "idle"
       /\ \E hb \in {NullHash} \cup Tips, cs \in ChangeSets, cfg \in DbConfigs :
             BatchWriteBegin(cs, hb, cfg[1], cfg[2])
    \/ LoopSkipLoaded
    \/ LoopEntry
    \/ \E ok \in BOOLEAN, crash \in BOOLEAN : LoopEntryFlush(ok, crash)
    \/ \E ok \in BOOLEAN : BatchWriteFinal(ok)
    \/ Return
    \/ Crash
    \/ Restart
    \/ Resume

Spec == Init /\ [][Next]_vars

\* A node that imports loaded coins and commits one-entry changesets,
\* never killed and run with -dbcrashratio=0.
LookupChangeSets == { cs \in ChangeSets : Len(cs) <= 1 }
NextLookup ==
    \/ \E coin \in LoadedCoins, ok \in BOOLEAN : WriteToLoadedCoinIndex(coin, ok)
    \/ /\ pc = "idle"
       /\ \E hb \in Tips, cs \in LookupChangeSets, cfg \in {c \in DbConfigs : c[2] = 0} :
             BatchWriteBegin(cs, hb, cfg[1], cfg[2])
    \/ LoopSkipLoaded
    \/ LoopEntry
    \/ \E ok \in BOOLEAN : LoopEntryFlush(ok, FALSE)
    \/ \E ok \in BOOLEAN : BatchWriteFinal(ok)
    \/ Return

SpecLookup == Init /\ [][NextLookup]_vars

\* The changesets of a larger commit: entries of the first outpoints in
\* the order of the map, none twice.
DrainOutPoint(i) == <<1 + ((i - 1) \div 2), (i - 1) % 2>>
RECURSIVE DrainChangeSetsUpTo(_)
DrainChangeSetsUpTo(n) ==
    IF n = 0 THEN {<<>>}
    ELSE LET below == DrainChangeSetsUpTo(n - 1)
         IN below \cup
            { Append(cs, CacheEntry(DrainOutPoint(n), Coin(c, l), d)) :
                cs \in below, c \in 0..1, l \in BOOLEAN, d \in BOOLEAN }
DrainChangeSets == DrainChangeSetsUpTo(MaxDrain)
BatchConfigs == DbConfigs \cup {<<MediumBatch, 0>>}

\* One commit to a fresh store, followed entry by entry.
NextBatch ==
    \/ /\ pc = "idle"
       /\ \E cs \in DrainChangeSets, cfg \in BatchConfigs :
             BatchWriteBegin(cs, 1, cfg[1], cfg[2])
    \/ LoopSkipLoaded
    \/ LoopEntry
    \/ \E ok \in BOOLEAN, crash \in BOOLEAN : LoopEntryFlush(ok, crash)
    \/ \E ok \in BOOLEAN : BatchWriteFinal(ok)

SpecBatch == Init /\ [][NextBatch]_vars

(* ----------------------- the legacy format ---------------------------- *)
\* CTxOut as the migration sees it: null, unspendable, or the output at
\* position n of its transaction.
NullTxOut == 0
UnspendableTxOut == MaxVout + 1
TxOuts == 0..(MaxVout + 1)
IsNull(txout) == txout = NullTxOut
IsUnspendable(txout) == txout = UnspendableTxOut

LegacyTxids == 1..MaxLegacyTx
LegacyKey(txid) == <<DB_COINS, txid>>

\* CCoins as the older version serialized it: the header (coinbase flag and
\* which outputs are available), the available outputs, the height.
StoredCCoins(fCoinBase, vAvail, outs, nHeight) ==
    [fCoinBase |-> fCoinBase, vAvail |-> vAvail, outs |-> outs, nHeight |-> nHeight]

\* The number of outputs available among the first n.
RECURSIVE NumAvail(_, _)
NumAvail(vAvail, n) ==
    IF n = 0 THEN 0
    ELSE NumAvail(vAvail, n - 1) + (IF vAvail[n] THEN 1 ELSE 0)

\* CCoins::Unserialize: [ok, coins]; every available output is read from
\* the stream, which throws when the stream ends early.
UnserializeCCoins(rec) ==
    [ok |-> Len(rec.outs) >= NumAvail(rec.vAvail, Len(rec.vAvail)),
     coins |-> [fCoinBase |-> rec.fCoinBase,
                nHeight |-> rec.nHeight,
                vout |-> [n \in 1..Len(rec.vAvail) |->
                            IF rec.vAvail[n] /\ NumAvail(rec.vAvail, n) <= Len(rec.outs)
                            THEN rec.outs[NumAvail(rec.vAvail, n)]
                            ELSE NullTxOut]]]

\* The Coin the migration builds from a legacy output: its content is the
\* output together with the height and the coinbase flag.
CoinContent(txout, nHeight, fCoinBase) ==
    txout + (MaxVout + 2) * (2 * nHeight + (IF fCoinBase THEN 1 ELSE 0))

(* --------------------------- Upgrade ---------------------------------- *)
\* Mutant: the scan is entered whatever the store holds.
AlwaysUpgrades(d) == FALSE
\* Lines 745-749: nothing at or after the legacy prefix.
NothingToUpgrade(d) == Seek(d, <<DB_COINS, NullHash>>) = <<>>

\* Line 765: the iterator is at a legacy key.
AtLegacyKey(k) == Len(k) = 2 /\ k[1] = DB_COINS

\* Lines 780-788: the modern records of one legacy record, output by output.
RECURSIVE VoutOps(_, _, _)
VoutOps(txid, old_coins, n) ==
    IF n = 0 THEN <<>>
    ELSE VoutOps(txid, old_coins, n - 1) \o
         (IF ~IsNull(old_coins.vout[n]) /\ ~IsUnspendable(old_coins.vout[n])
          THEN <<BatchWriteOp(CoinEntry(<<txid, n - 1>>),
                              SerializeCoin(Coin(CoinContent(old_coins.vout[n],
                                                             old_coins.nHeight,
                                                             old_coins.fCoinBase),
                                                 FALSE)))>>
          ELSE <<>>)

\* Mutant: the legacy record is left behind.
RecordOpsKeepLegacy(key, old_coins) == VoutOps(key[2], old_coins, Len(old_coins.vout))
\* Lines 780-789: what one legacy record adds to the batch.
RecordOps(key, old_coins) ==
    VoutOps(key[2], old_coins, Len(old_coins.vout)) \o <<BatchEraseOp(key)>>

\* Line 805
UpgradeResult(shutdown) == ~shutdown

\* Lines 744-759: the iterator is opened and sought to the legacy prefix;
\* without anything there Upgrade returns true at once.
UpgradeBegin ==
    /\ pc = "idle"
    /\ snap' = db
    /\ pcursor' = Seek(db, <<DB_COINS, NullHash>>)
    /\ preDb' = db
    /\ flushes' = <<>>
    /\ exit' = "no"
    /\ count' = 0
    /\ batch' = <<>>
    /\ IF NothingToUpgrade(db)
       THEN /\ pc' = "upgraded"
            /\ ret' = TRUE
            /\ UNCHANGED batch_size
       ELSE /\ pc' = "upgrade"
            /\ ret' = FALSE
            /\ batch_size' = UpgradeBatchSize
    /\ UNCHANGED <<db, loadedcoindb, mapCoins, it, hashBlock, old_tip,
                   crash_simulate, cs0, hNew, keyTmp, scanned, fRequestShutdown,
                   legacyDb, cancelled, import>>
    /\ UNCHANGED <<index, codec>>

\* Lines 760-764 and 797-799: the scan ends, by the end of the table, by
\* the shutdown flag or by a key that is not a legacy key.
UpgradeBreak ==
    /\ pc = "upgrade"
    /\ pcursor = <<>> \/ fRequestShutdown \/ ~AtLegacyKey(pcursor)
    /\ pc' = "upgrade_final"
    /\ exit' = IF pcursor # <<>> /\ fRequestShutdown THEN "cancelled" ELSE exit
    /\ UNCHANGED <<db, loadedcoindb, locals, preDb, cs0, hNew, flushes, scan,
                   upgrade, import>>
    /\ UNCHANGED <<index, codec>>

\* Mutant: the pending batch is written before the failure is returned.
UpgradeParseFailFlushing ==
    /\ pc = "upgrade"
    /\ pcursor # <<>> /\ ~fRequestShutdown /\ AtLegacyKey(pcursor)
    /\ ~UnserializeCCoins(snap[pcursor]).ok
    /\ db' = WriteBatch(db, batch, TRUE)
    /\ pc' = "upgraded"
    /\ ret' = FALSE
    /\ exit' = "parse"
    /\ count' = count + 1
    /\ UNCHANGED <<loadedcoindb, mapCoins, it, batch, hashBlock, old_tip,
                   batch_size, crash_simulate, preDb, cs0, hNew, flushes, scan,
                   fRequestShutdown, legacyDb, cancelled, import>>
    /\ UNCHANGED <<index, codec>>

\* Lines 776-779: the record does not parse; Upgrade returns what error()
\* returns, the pending batch is dropped with the frame.
UpgradeParseFail ==
    /\ pc = "upgrade"
    /\ pcursor # <<>> /\ ~fRequestShutdown /\ AtLegacyKey(pcursor)
    /\ ~UnserializeCCoins(snap[pcursor]).ok
    /\ pc' = "upgraded"
    /\ ret' = FALSE
    /\ exit' = "parse"
    /\ count' = count + 1
    /\ UNCHANGED <<db, loadedcoindb, mapCoins, it, batch, hashBlock, old_tip,
                   batch_size, crash_simulate, preDb, cs0, hNew, flushes, scan,
                   fRequestShutdown, legacyDb, cancelled, import>>
    /\ UNCHANGED <<index, codec>>

\* Lines 765-796: a record is converted into the batch, which stays within
\* the threshold.
UpgradeRecord ==
    /\ pc = "upgrade"
    /\ pcursor # <<>> /\ ~fRequestShutdown /\ AtLegacyKey(pcursor)
    /\ UnserializeCCoins(snap[pcursor]).ok
    /\ LET ops == RecordOps(pcursor, UnserializeCCoins(snap[pcursor]).coins)
       IN /\ SizeEstimate(batch \o ops) <= batch_size
          /\ batch' = batch \o ops
    /\ count' = count + 1
    /\ pcursor' = NextKey(snap, pcursor)
    /\ UNCHANGED <<db, loadedcoindb, pc, mapCoins, it, hashBlock, old_tip,
                   batch_size, crash_simulate, ret, history, snap, keyTmp,
                   scanned, fRequestShutdown, legacyDb, cancelled, import>>
    /\ UNCHANGED <<index, codec>>

\* Lines 765-796: a record is converted, the batch exceeds the threshold
\* and is written (the engine answering ok) and cleared.
UpgradeRecordFlush(ok) ==
    /\ pc = "upgrade"
    /\ pcursor # <<>> /\ ~fRequestShutdown /\ AtLegacyKey(pcursor)
    /\ UnserializeCCoins(snap[pcursor]).ok
    /\ LET ops == RecordOps(pcursor, UnserializeCCoins(snap[pcursor]).coins)
       IN /\ SizeEstimate(batch \o ops) > batch_size
          /\ db' = WriteBatch(db, batch \o ops, ok)
    /\ flushes' = Append(flushes, ok)
    /\ batch' = <<>>
    /\ count' = count + 1
    /\ pcursor' = NextKey(snap, pcursor)
    /\ UNCHANGED <<loadedcoindb, pc, mapCoins, it, hashBlock, old_tip,
                   batch_size, crash_simulate, ret, preDb, cs0, hNew, exit, snap,
                   keyTmp, scanned, fRequestShutdown, legacyDb, cancelled, import>>
    /\ UNCHANGED <<index, codec>>

\* Lines 801-805: the last batch is written and the flag decides the result.
UpgradeFinal(ok) ==
    /\ pc = "upgrade_final"
    /\ db' = WriteBatch(db, batch, ok)
    /\ flushes' = Append(flushes, ok)
    /\ ret' = UpgradeResult(fRequestShutdown)
    /\ pc' = "upgraded"
    /\ UNCHANGED <<loadedcoindb, mapCoins, it, batch, hashBlock, old_tip,
                   batch_size, crash_simulate, preDb, cs0, hNew, exit, bulk>>

\* The caller takes the result: the node goes on after a success and
\* shuts down otherwise.
UpgradeReturn ==
    /\ pc = "upgraded"
    /\ pc' = IF ret THEN "idle" ELSE "stopped"
    /\ cancelled' = (cancelled \/ exit = "cancelled")
    /\ count' = 0
    /\ ResetLocals /\ ResetHistory /\ ResetScan
    /\ UNCHANGED <<db, loadedcoindb, fRequestShutdown, legacyDb, import>>
    /\ UNCHANGED <<index, codec>>

\* StartShutdown() from another thread while Upgrade runs.
RequestShutdown ==
    /\ pc \in {"upgrade", "upgrade_final"}
    /\ ~fRequestShutdown
    /\ fRequestShutdown' = TRUE
    /\ UNCHANGED <<db, loadedcoindb, pc, locals, history, scan, count, legacyDb,
                   cancelled, import>>
    /\ UNCHANGED <<index, codec>>

\* The node is started again after it shut down: a new process, the flag
\* clear.
StartAgain ==
    /\ pc = "stopped"
    /\ pc' = "idle"
    /\ fRequestShutdown' = FALSE
    /\ UNCHANGED <<db, loadedcoindb, locals, history, scan, count, legacyDb,
                   cancelled, import>>
    /\ UNCHANGED <<index, codec>>

\* The outputs a legacy record may hold at position n: spent, the output
\* itself, and at the last position a data carrier.
LegacyOuts(n) ==
    {NullTxOut, n} \cup (IF n = MaxVout THEN {UnspendableTxOut} ELSE {})
\* The records of transaction txid an older version wrote: not every
\* output spent; the height and the coinbase flag are those of txid.
LegacyRecords(txid) ==
    { StoredCCoins(txid = 1, [n \in 1..MaxVout |-> ~IsNull(vout[n])],
                   SelectSeq(vout, LAMBDA o : ~IsNull(o)), txid) :
        vout \in { v \in [1..MaxVout -> TxOuts] :
                     /\ \A n \in 1..MaxVout : v[n] \in LegacyOuts(n)
                     /\ \E n \in 1..MaxVout : ~IsNull(v[n]) } }
\* A record cut short on disk.
TruncatedRecord(txid) ==
    StoredCCoins(txid = 1, [n \in 1..MaxVout |-> TRUE], <<>>, txid)

\* The stores an older version left behind: a best block and legacy
\* records of some of the transactions 1..n.
RECURSIVE LegacyStoresUpTo(_)
LegacyStoresUpTo(n) ==
    IF n = 0 THEN {Put(EmptyDb, BestBlockKey, 1)}
    ELSE LET below == LegacyStoresUpTo(n - 1)
         IN below \cup
            { Put(d, LegacyKey(n), rec) :
                d \in below, rec \in LegacyRecords(n) \cup {TruncatedRecord(n)} }
LegacyStores == LegacyStoresUpTo(MaxLegacyTx)

\* A node started on a store an older version left behind.
InitUpgrade ==
    /\ db \in LegacyStores
    /\ loadedcoindb = EmptyDb
    /\ pc = "idle"
    /\ NoLocals
    /\ NoHistory
    /\ snap = EmptyDb /\ pcursor = <<>> /\ keyTmp = NoKeyTmp /\ scanned = <<>>
    /\ count = 0 /\ fRequestShutdown = FALSE /\ legacyDb = db
    /\ cancelled = FALSE
    /\ filein = NoFile /\ read = 0 /\ vLoadedCoin = <<>> /\ preLoaded = EmptyDb
    /\ myfile = NoFile /\ vExport = NoExport /\ vMine = <<>>
    /\ blocktree = EmptyDb /\ mapBlockIndex = EmptyDb /\ vLoaded = <<>>
    /\ keyA = NoKey /\ keyB = NoKey /\ encA = <<>> /\ encB = <<>>

NextUpgrade ==
    \/ UpgradeBegin
    \/ UpgradeBreak
    \/ UpgradeParseFail
    \/ UpgradeRecord
    \/ \E ok \in BOOLEAN : UpgradeRecordFlush(ok)
    \/ \E ok \in BOOLEAN : UpgradeFinal(ok)
    \/ UpgradeReturn
    \/ RequestShutdown
    \/ StartAgain

SpecUpgrade == InitUpgrade /\ [][NextUpgrade]_vars

(* --------------------------- the cursor ------------------------------- *)
\* CDBIterator::GetKey into a CoinEntry: [ok, key, outpoint].  The
\* discriminator, the hash and the index are read in turn into the entry,
\* which keeps what it held of the fields the key is too short for.
GetKeyCoinEntry(k, outpoint) ==
    [ok |-> Len(k) >= 3,
     key |-> k[1],
     outpoint |-> <<IF Len(k) >= 2 THEN k[2] ELSE outpoint[1],
                    IF Len(k) >= 3 THEN k[3] ELSE outpoint[2]>>]

\* Mutant: any cached key counts.
CursorValidAnyKey(kt) == kt[1] # 0
\* CCoinsViewDBCursor::Valid
CursorValid(kt) == kt[1] = DB_COIN

\* Line 370: where Cursor() seeks to.
CursorStart == <<DB_COIN>>

\* CCoinsViewDB::Cursor: the iterator is opened, sought to the coin prefix
\* and the key of the first record is cached.
Cursor ==
    /\ pc = "idle"
    /\ pc' = "scan"
    /\ snap' = db
    /\ pcursor' = Seek(db, CursorStart)
    /\ keyTmp' = IF Seek(db, CursorStart) # <<>>
                 THEN LET entry == GetKeyCoinEntry(Seek(db, CursorStart), NoKeyTmp[2])
                      IN <<entry.key, entry.outpoint>>
                 ELSE <<0, NoKeyTmp[2]>>
    /\ scanned' = <<>>
    /\ UNCHANGED <<db, loadedcoindb, locals, history, upgrade, import>>
    /\ UNCHANGED <<index, codec>>

\* One turn of the caller's loop: Valid(), GetKey(key), Next().
CursorNext ==
    /\ pc = "scan"
    /\ CursorValid(keyTmp)
    /\ scanned' = Append(scanned, keyTmp[2])
    /\ pcursor' = NextKey(snap, pcursor)
    /\ keyTmp' = IF NextKey(snap, pcursor) = <<>>
                 THEN <<0, keyTmp[2]>>
                 ELSE LET entry == GetKeyCoinEntry(NextKey(snap, pcursor), keyTmp[2])
                      IN <<IF entry.ok THEN entry.key ELSE 0, entry.outpoint>>
    /\ UNCHANGED <<db, loadedcoindb, pc, locals, history, snap, upgrade, import>>
    /\ UNCHANGED <<index, codec>>

\* The caller's loop ends: Valid() is false.
CursorEnd ==
    /\ pc = "scan"
    /\ ~CursorValid(keyTmp)
    /\ pc' = "scanned"
    /\ UNCHANGED <<db, loadedcoindb, locals, history, bulk>>

\* The cursor is deleted.
CursorDelete ==
    /\ pc = "scanned"
    /\ pc' = "idle"
    /\ ResetScan
    /\ UNCHANGED <<db, loadedcoindb, locals, history, upgrade, import>>
    /\ UNCHANGED <<index, codec>>

\* The stores of an older version whose records hold all their outputs,
\* the record of transaction 1 possibly only the first one.
ScanLegacyStores ==
    { d \in LegacyStores :
        \A k \in DOMAIN d :
            k[1] = DB_COINS =>
                \/ d[k].outs = [n \in 1..MaxVout |-> n]
                \/ /\ k[2] = 1
                   /\ d[k].outs = <<1>>
                   /\ d[k].vAvail = [n \in 1..MaxVout |-> n = 1] }
\* The changesets of a node whose overlay is empty: no coin is loaded.
ScanChangeSets ==
    { cs \in LookupChangeSets : \A j \in DOMAIN cs : ~cs[j].coin.fLoaded }

\* A node started on such a store that migrates it, commits one-entry
\* changesets, is ended by the fault-injection hook and scans its coin
\* table; the engine accepts every write.
InitCursor ==
    /\ db \in ScanLegacyStores
    /\ loadedcoindb = EmptyDb
    /\ pc = "idle"
    /\ NoLocals
    /\ NoHistory
    /\ snap = EmptyDb /\ pcursor = <<>> /\ keyTmp = NoKeyTmp /\ scanned = <<>>
    /\ count = 0 /\ fRequestShutdown = FALSE /\ legacyDb = db
    /\ cancelled = FALSE
    /\ filein = NoFile /\ read = 0 /\ vLoadedCoin = <<>> /\ preLoaded = EmptyDb
    /\ myfile = NoFile /\ vExport = NoExport /\ vMine = <<>>
    /\ blocktree = EmptyDb /\ mapBlockIndex = EmptyDb /\ vLoaded = <<>>
    /\ keyA = NoKey /\ keyB = NoKey /\ encA = <<>> /\ encB = <<>>

NextCursor ==
    \/ Cursor
    \/ CursorNext
    \/ CursorEnd
    \/ CursorDelete
    \/ UpgradeBegin
    \/ UpgradeBreak
    \/ UpgradeRecord
    \/ UpgradeRecordFlush(TRUE)
    \/ UpgradeFinal(TRUE)
    \/ UpgradeReturn
    \/ RequestShutdown
    \/ StartAgain
    \/ /\ pc = "idle"
       /\ \E hb \in Tips, cs \in ScanChangeSets, cfg \in DbConfigs :
             BatchWriteBegin(cs, hb, cfg[1], cfg[2])
    \/ LoopEntry
    \/ \E crash \in BOOLEAN : LoopEntryFlush(TRUE, crash)
    \/ BatchWriteFinal(TRUE)
    \/ Return
    \/ Restart
    \/ Resume

SpecCursor == InitCursor /\ [][NextCursor]_vars

(* ----------------------- ReadLoadedCoins ------------------------------ *)
\* Lines 184-187: the batch WriteLoadedCoinIndex builds from a vector.
RECURSIVE LoadedCoinIndexOps(_)
LoadedCoinIndexOps(v) ==
    IF v = <<>> THEN <<>>
    ELSE <<BatchWriteOp(LoadedKey(GetHash(Head(v).out)), Head(v))>> \o
         LoadedCoinIndexOps(Tail(v))

\* loaded_coins.dat: absent, or the two versions (the second is read and
\* not used), the count and the coins, of which the last may be missing.
LoadedFile(nVersionRequired, cnt, coins) ==
    [isNull |-> FALSE, nVersionRequired |-> nVersionRequired, count |-> cnt,
     coins |-> coins]
LoadedFiles ==
    {NoFile} \cup
    UNION { { LoadedFile(v, cnt, coins) :
                v \in {CLIENT_VERSION, CLIENT_VERSION + 1},
                coins \in [1..cnt -> LoadedCoins] \cup
                          (IF cnt > 0 THEN [1..(cnt - 1) -> LoadedCoins] ELSE {}) } :
            cnt \in 0..MaxFile }

\* Lines 223-247: the file is opened and its header read.
ReadLoadedCoinsBegin(file) ==
    /\ pc = "idle"
    /\ filein' = file
    /\ read' = 0
    /\ vLoadedCoin' = <<>>
    /\ preLoaded' = loadedcoindb
    /\ flushes' = <<>>
    /\ IF file.isNull \/ file.nVersionRequired > CLIENT_VERSION
       THEN /\ pc' = "imported"
            /\ exit' = IF file.isNull THEN "nofile" ELSE "version"
       ELSE /\ pc' = "import"
            /\ exit' = "no"
    /\ ret' = FALSE
    /\ UNCHANGED <<db, loadedcoindb, mapCoins, it, batch, hashBlock, old_tip,
                   batch_size, crash_simulate, preDb, cs0, hNew, scan, upgrade,
                   myfile, vExport, vMine>>
    /\ UNCHANGED <<index, codec>>

\* Lines 248-260: one turn of the loop; every ImportBatchSize coins the
\* vector is written to the index (the engine answering ok) and cleared,
\* then the next coin is read, which throws when the file ends early.
ReadLoadedCoin(ok) ==
    /\ pc = "import"
    /\ read < filein.count
    /\ LET flush == read % ImportBatchSize = 0
           eof == read + 1 > Len(filein.coins)
       IN /\ loadedcoindb' = IF flush
                             THEN WriteBatch(loadedcoindb, LoadedCoinIndexOps(vLoadedCoin), ok)
                             ELSE loadedcoindb
          /\ flushes' = IF flush THEN Append(flushes, ok) ELSE flushes
          /\ IF eof
             THEN /\ pc' = "imported"
                  /\ exit' = "parse"
                  /\ vLoadedCoin' = IF flush THEN <<>> ELSE vLoadedCoin
                  /\ UNCHANGED read
             ELSE /\ vLoadedCoin' = Append(IF flush THEN <<>> ELSE vLoadedCoin,
                                           filein.coins[read + 1])
                  /\ read' = read + 1
                  /\ UNCHANGED <<pc, exit>>
    /\ UNCHANGED <<db, mapCoins, it, batch, hashBlock, old_tip, batch_size,
                   crash_simulate, ret, preDb, cs0, hNew, scan, upgrade, filein,
                   preLoaded, myfile, vExport, vMine>>
    /\ UNCHANGED <<index, codec>>

\* Lines 261-272: the final batch is written and true returned.
ReadLoadedCoinsFinal(ok) ==
    /\ pc = "import"
    /\ read >= filein.count
    /\ loadedcoindb' = WriteBatch(loadedcoindb, LoadedCoinIndexOps(vLoadedCoin), ok)
    /\ flushes' = Append(flushes, ok)
    /\ ret' = TRUE
    /\ pc' = "imported"
    /\ UNCHANGED <<db, mapCoins, it, batch, hashBlock, old_tip, batch_size,
                   crash_simulate, preDb, cs0, hNew, exit, bulk>>

\* The caller takes the result.
ReadLoadedCoinsReturn ==
    /\ pc = "imported"
    /\ pc' = "idle"
    /\ filein' = NoFile /\ read' = 0 /\ vLoadedCoin' = <<>>
    /\ preLoaded' = EmptyDb
    /\ ResetLocals /\ ResetHistory
    /\ UNCHANGED <<db, loadedcoindb, scan, upgrade, myfile, vExport, vMine>>
    /\ UNCHANGED <<index, codec>>

\* A node that imports loaded_coins.dat, again and again.
NextImport ==
    \/ /\ pc = "idle"
       /\ \E file \in LoadedFiles : ReadLoadedCoinsBegin(file)
    \/ \E ok \in BOOLEAN : ReadLoadedCoin(ok)
    \/ \E ok \in BOOLEAN : ReadLoadedCoinsFinal(ok)
    \/ ReadLoadedCoinsReturn

SpecImport == Init /\ [][NextImport]_vars

(* ------------------- my_loaded_coins.dat ------------------------------ *)
\* Line 327: the reader version WriteMyLoadedCoins asks for.
ExportVersionRequired == 210000

\* CCoinsViewDB::WriteMyLoadedCoins: what my_loaded_coins.dat holds after
\* the call; nothing is opened for an empty vector, fopen(path, "w")
\* either fails or leaves the file with the header and the coins.
WrittenFile(file, v, opened) ==
    IF v = <<>> THEN file
    ELSE IF ~opened THEN file
    ELSE LoadedFile(ExportVersionRequired, Len(v), v)

\* CCoinsViewDB::ReadMyLoadedCoins: the vector returned, which holds the
\* coins read before the file ended.
ReadFile(file) ==
    IF file.isNull THEN <<>>
    ELSE IF file.nVersionRequired > CLIENT_VERSION THEN <<>>
    ELSE SubSeq(file.coins, 1, IF Len(file.coins) < file.count
                               THEN Len(file.coins) ELSE file.count)

WriteMyLoadedCoins(v, opened) ==
    /\ pc = "idle"
    /\ myfile' = WrittenFile(myfile, v, opened)
    /\ vExport' = [called |-> TRUE, opened |-> opened, coins |-> v]
    /\ UNCHANGED <<db, loadedcoindb, pc, locals, history, scan, upgrade, filein,
                   read, vLoadedCoin, preLoaded, vMine>>
    /\ UNCHANGED <<index, codec>>

ReadMyLoadedCoins ==
    /\ pc = "idle"
    /\ pc' = "mine"
    /\ vMine' = ReadFile(myfile)
    /\ UNCHANGED <<db, loadedcoindb, locals, history, scan, upgrade, filein,
                   read, vLoadedCoin, preLoaded, myfile, vExport>>
    /\ UNCHANGED <<index, codec>>

\* The caller takes the vector.
ReadMyLoadedCoinsReturn ==
    /\ pc = "mine"
    /\ pc' = "idle"
    /\ vMine' = <<>>
    /\ UNCHANGED <<db, loadedcoindb, locals, history, scan, upgrade, filein,
                   read, vLoadedCoin, preLoaded, myfile, vExport>>
    /\ UNCHANGED <<index, codec>>

\* The coins a node assembles for export, in the order of their
\* outpoints: no outpoint twice.
ExportOutPoints == { <<1 + (i \div 2), i % 2>> : i \in 0..(MaxExport - 1) }
ExportCoins ==
    { LoadedCoin(o, SerializeCoin(Coin(LoadedOut, FALSE)), s) :
        o \in ExportOutPoints, s \in BOOLEAN }
ExportVectors ==
    { v \in UNION { [1..n -> ExportCoins] : n \in 0..MaxExport } :
        \A i, j \in 1..Len(v) : i < j => KeyLess(v[i].out, v[j].out) }

\* A node that exports its loaded coins, reads the file back and imports
\* it (installed as loaded_coins.dat) while its overlay is fresh.
NextRoundTrip ==
    \/ /\ pc = "idle"
       /\ \E v \in ExportVectors, opened \in BOOLEAN : WriteMyLoadedCoins(v, opened)
    \/ ReadMyLoadedCoins
    \/ ReadMyLoadedCoinsReturn
    \/ /\ pc = "idle"
       /\ loadedcoindb = EmptyDb
       /\ ReadLoadedCoinsBegin(myfile)
    \/ \E ok \in BOOLEAN : ReadLoadedCoin(ok)
    \/ \E ok \in BOOLEAN : ReadLoadedCoinsFinal(ok)
    \/ ReadLoadedCoinsReturn

SpecRoundTrip == Init /\ [][NextRoundTrip]_vars

(* ------------------- a node with an overlay --------------------------- *)
\* The import files of at most one declared coin.
ShortFiles == { f \in LoadedFiles : f.isNull \/ f.count <= 1 }

\* A node started on a store of an older version that records loaded
\* coins, imports short files, migrates the store, commits one-entry
\* changesets and scans its coin table.
NextOverlay ==
    \/ \E coin \in LoadedCoins, ok \in BOOLEAN : WriteToLoadedCoinIndex(coin, ok)
    \/ /\ pc = "idle"
       /\ \E file \in ShortFiles : ReadLoadedCoinsBegin(file)
    \/ \E ok \in BOOLEAN : ReadLoadedCoin(ok)
    \/ \E ok \in BOOLEAN : ReadLoadedCoinsFinal(ok)
    \/ ReadLoadedCoinsReturn
    \/ /\ pc = "idle"
       /\ \E cs \in LookupChangeSets, cfg \in {c \in DbConfigs : c[2] = 0} :
             BatchWriteBegin(cs, 1, cfg[1], cfg[2])
    \/ LoopSkipLoaded
    \/ LoopEntry
    \/ LoopEntryFlush(TRUE, FALSE)
    \/ BatchWriteFinal(TRUE)
    \/ Return
    \/ Cursor
    \/ CursorNext
    \/ CursorEnd
    \/ CursorDelete
    \/ UpgradeBegin
    \/ UpgradeBreak
    \/ UpgradeRecord
    \/ UpgradeRecordFlush(TRUE)
    \/ UpgradeFinal(TRUE)
    \/ UpgradeReturn

SpecOverlay == InitCursor /\ [][NextOverlay]_vars

(* ----------------------- the block index ----------------------------- *)
\* The digest of a block header, here of its predecessor hash and nonce.
BlockHash(hashPrev, nNonce) == ((hashPrev + nNonce) % MaxBlock) + 1

\* CDiskBlockIndex as stored: the predecessor hash, the header and the
\* metadata; a value that is not whole does not unserialize.
DiskBlockIndex(hashPrev, nNonce, nHeight, whole) ==
    [hashPrev |-> hashPrev, nNonce |-> nNonce, nHeight |-> nHeight, whole |-> whole]
BlockIndexKey(hash) == <<DB_BLOCK_INDEX, hash>>

\* A CBlockIndex as the resolver constructs it; nodes point to nodes by
\* their place in the arena, which is their hash.
NullPtr == -1
NewBlockIndex == [pprev |-> NullPtr, nHeight |-> 0, nNonce |-> 0]

\* The resolver handed to LoadBlockIndexGuts: the arena after the node of
\* `hash` was looked up, and created if it was not there.
InsertBlockIndex(map, hash) ==
    [h \in (DOMAIN map) \cup {hash} |-> IF h \in DOMAIN map THEN map[h] ELSE NewBlockIndex]

\* Line 490: the iterator is at a block-index key.
AtBlockIndexKey(k) == Len(k) = 2 /\ k[1] = DB_BLOCK_INDEX

\* Mutant: the predecessor is not wired.
LoadedNodeNoPrev(node, diskindex) ==
    [node EXCEPT !.nHeight = diskindex.nHeight, !.nNonce = diskindex.nNonce]
\* Lines 495-506: the node after the record's fields were copied into it.
LoadedNode(node, diskindex) ==
    [node EXCEPT !.pprev = diskindex.hashPrev,
                 !.nHeight = diskindex.nHeight,
                 !.nNonce = diskindex.nNonce]

\* Lines 482-484: the iterator is opened and sought to the first
\* block-index key.
LoadBlockIndexGuts ==
    /\ pc = "idle"
    /\ pc' = "load"
    /\ snap' = blocktree
    /\ pcursor' = Seek(blocktree, BlockIndexKey(NullHash))
    /\ vLoaded' = <<>>
    /\ ret' = FALSE
    /\ exit' = "no"
    /\ UNCHANGED <<db, loadedcoindb, mapCoins, it, batch, hashBlock, old_tip,
                   batch_size, crash_simulate, preDb, cs0, hNew, flushes, keyTmp,
                   scanned, upgrade, import, blocktree, mapBlockIndex, codec>>

\* Lines 487-516: one record is read, its node and the node of its
\* predecessor are resolved, the fields copied and the iterator advanced.
LoadRecord ==
    /\ pc = "load"
    /\ pcursor # <<>> /\ AtBlockIndexKey(pcursor)
    /\ snap[pcursor].whole
    /\ LET diskindex == snap[pcursor]
           pindexNew == BlockHash(diskindex.hashPrev, diskindex.nNonce)
           resolved == InsertBlockIndex(InsertBlockIndex(mapBlockIndex, pindexNew),
                                        diskindex.hashPrev)
       IN mapBlockIndex' =
             [resolved EXCEPT ![pindexNew] = LoadedNode(resolved[pindexNew], diskindex)]
    /\ vLoaded' = Append(vLoaded, pcursor)
    /\ pcursor' = NextKey(snap, pcursor)
    /\ UNCHANGED <<db, loadedcoindb, pc, locals, history, snap, keyTmp, scanned,
                   upgrade, import, blocktree, codec>>

\* Lines 492 and 517-519: the value does not unserialize.
LoadValueFail ==
    /\ pc = "load"
    /\ pcursor # <<>> /\ AtBlockIndexKey(pcursor)
    /\ ~snap[pcursor].whole
    /\ pc' = "indexed"
    /\ ret' = FALSE
    /\ exit' = "parse"
    /\ UNCHANGED <<db, loadedcoindb, mapCoins, it, batch, hashBlock, old_tip,
                   batch_size, crash_simulate, preDb, cs0, hNew, flushes, bulk>>

\* Lines 487, 520-525: the table ends or another key is reached.
LoadEnd ==
    /\ pc = "load"
    /\ pcursor = <<>> \/ ~AtBlockIndexKey(pcursor)
    /\ pc' = "indexed"
    /\ ret' = TRUE
    /\ UNCHANGED <<db, loadedcoindb, mapCoins, it, batch, hashBlock, old_tip,
                   batch_size, crash_simulate, history, bulk>>

\* Line 488: the thread is interrupted, the exception leaves the function.
LoadInterrupted ==
    /\ pc = "load"
    /\ pcursor # <<>>
    /\ pc' = "interrupted"
    /\ exit' = "interrupted"
    /\ UNCHANGED <<db, loadedcoindb, locals, preDb, cs0, hNew, flushes, bulk>>

\* The records of block h a node has persisted: keyed by the hash of the
\* header they hold, the predecessor another block or none.
BlockRecords(h) ==
    { r \in { DiskBlockIndex(p, n, ht, TRUE) :
                p \in (0..MaxBlock) \ {h}, n \in 0..(MaxBlock - 1),
                ht \in 1..MaxHeight } :
        BlockHash(r.hashPrev, r.nNonce) = h }
\* A value cut short on disk.
DamagedRecord == DiskBlockIndex(0, 0, 0, FALSE)

\* What else the block index database holds: nothing, or a flag, the
\* info of block file 0 and the last block file.
OtherRecords ==
    { EmptyDb,
      Put(Put(Put(EmptyDb, <<DB_FLAG, 1>>, 1), <<DB_BLOCK_FILES, 0>>, 0),
          <<DB_LAST_BLOCK>>, 0) }

RECURSIVE BlockTreesUpTo(_)
BlockTreesUpTo(n) ==
    IF n = 0 THEN OtherRecords
    ELSE LET below == BlockTreesUpTo(n - 1)
         IN below \cup
            { Put(d, BlockIndexKey(n), rec) :
                d \in below, rec \in BlockRecords(n) \cup {DamagedRecord} }
BlockTrees == BlockTreesUpTo(MaxBlock)

\* A node started on a block index database, its arena empty.
InitBlockIndex ==
    /\ db = EmptyDb
    /\ loadedcoindb = EmptyDb
    /\ pc = "idle"
    /\ NoLocals
    /\ NoHistory
    /\ snap = EmptyDb /\ pcursor = <<>> /\ keyTmp = NoKeyTmp /\ scanned = <<>>
    /\ count = 0 /\ fRequestShutdown = FALSE /\ legacyDb = EmptyDb
    /\ cancelled = FALSE
    /\ filein = NoFile /\ read = 0 /\ vLoadedCoin = <<>> /\ preLoaded = EmptyDb
    /\ myfile = NoFile /\ vExport = NoExport /\ vMine = <<>>
    /\ blocktree \in BlockTrees /\ mapBlockIndex = EmptyDb /\ vLoaded = <<>>
    /\ keyA = NoKey /\ keyB = NoKey /\ encA = <<>> /\ encB = <<>>

NextBlockIndex ==
    \/ LoadBlockIndexGuts
    \/ LoadRecord
    \/ LoadValueFail
    \/ LoadEnd
    \/ LoadInterrupted

SpecBlockIndex == InitBlockIndex /\ [][NextBlockIndex]_vars

(* ------------------------ the key codec ------------------------------- *)
\* VARINT: most significant digit first, VarIntBase values to a byte, the
\* bytes before the last one flagged by VarIntBase and, so that no number
\* has two encodings, holding one less.
RECURSIVE VarIntHigh(_)
VarIntHigh(n) ==
    IF n < VarIntBase THEN <<n + VarIntBase>>
    ELSE VarIntHigh((n \div VarIntBase) - 1) \o <<(n % VarIntBase) + VarIntBase>>
VarInt(n) ==
    IF n < VarIntBase THEN <<n>>
    ELSE VarIntHigh((n \div VarIntBase) - 1) \o <<n % VarIntBase>>

\* Mutant: the index is written before the hash.
SerializeCoinEntryIndexFirst(hash, n) == <<DB_COIN>> \o VarInt(n) \o hash
\* CoinEntry::Serialize: the discriminator, the bytes of the hash, the
\* index as a VARINT.
SerializeCoinEntry(hash, n) == <<DB_COIN>> \o hash \o VarInt(n)

\* A key as the store hands it to the engine: a CoinEntry, a
\* discriminator alone, or a discriminator paired with a hash.
LogicalKey(key, hash, n) == [key |-> key, hash |-> hash, n |-> n]
SerializeKey(k) ==
    IF k.key = DB_COIN THEN SerializeCoinEntry(k.hash, k.n)
    ELSE <<k.key>> \o k.hash

\* Both keys are serialized.
SerializeKeys ==
    /\ pc = "idle"
    /\ pc' = "encoded"
    /\ encA' = SerializeKey(keyA)
    /\ encB' = SerializeKey(keyB)
    /\ UNCHANGED <<db, loadedcoindb, locals, history, scan, upgrade, import,
                   index, keyA, keyB>>

\* The keys of the coin database and of the overlay.
HashBytes == [1..HashLen -> 0..MaxHashByte]
LogicalKeys ==
    { LogicalKey(DB_COIN, h, n) : h \in HashBytes, n \in 0..MaxIndex } \cup
    { LogicalKey(d, <<>>, 0) : d \in {DB_BEST_BLOCK, DB_HEAD_BLOCKS} } \cup
    { LogicalKey(d, h, 0) : d \in {DB_COINS, DB_LOADED_COINS}, h \in HashBytes }

InitCodec ==
    /\ db = EmptyDb
    /\ loadedcoindb = EmptyDb
    /\ pc = "idle"
    /\ NoLocals
    /\ NoHistory
    /\ snap = EmptyDb /\ pcursor = <<>> /\ keyTmp = NoKeyTmp /\ scanned = <<>>
    /\ count = 0 /\ fRequestShutdown = FALSE /\ legacyDb = EmptyDb
    /\ cancelled = FALSE
    /\ filein = NoFile /\ read = 0 /\ vLoadedCoin = <<>> /\ preLoaded = EmptyDb
    /\ myfile = NoFile /\ vExport = NoExport /\ vMine = <<>>
    /\ blocktree = EmptyDb /\ mapBlockIndex = EmptyDb /\ vLoaded = <<>>
    /\ keyA \in LogicalKeys /\ keyB \in LogicalKeys /\ encA = <<>> /\ encB = <<>>

NextCodec == SerializeKeys

SpecCodec == InitCodec /\ [][NextCodec]_vars

(* ======================= properties of the store ====================== *)
\* A call of BatchWrite that passed its assertions is running, has just
\* returned, or was cut short by a crash.
InCommit ==
    \/ pc \in {"loop", "done"}
    \/ pc \in {"crashed", "restarted"} /\ exit \in {"crash", "simcrash"}
\* The node has been restarted after a crash inside BatchWrite.
AfterCrash == pc = "restarted" /\ exit \in {"crash", "simcrash"}

\* The tip the store was at when BatchWrite was entered: the best-block
\* value, or the second head of a marker left by an interrupted commit.
TipBefore ==
    IF BestBlockKey \in DOMAIN preDb THEN preDb[BestBlockKey]
    ELSE IF HeadBlocksKey \in DOMAIN preDb THEN preDb[HeadBlocksKey][2]
    ELSE NullHash

SteadyState(d) == BestBlockKey \in DOMAIN d /\ HeadBlocksKey \notin DOMAIN d
TransitionalState(d) ==
    /\ HeadBlocksKey \in DOMAIN d
    /\ Len(d[HeadBlocksKey]) = 2
    /\ BestBlockKey \notin DOMAIN d
NoTipState(d) == BestBlockKey \notin DOMAIN d /\ HeadBlocksKey \notin DOMAIN d

\* The coin table of a database.
CoinTable(d) ==
    [k \in { x \in DOMAIN d : x[1] = DB_COIN } |-> d[k]]
\* Key k holds the same in both databases.
SameAt(k, d1, d2) ==
    /\ k \in DOMAIN d1 <=> k \in DOMAIN d2
    /\ k \in DOMAIN d1 => d1[k] = d2[k]

\* The coin mutations a changeset asks for, in drain order.
RECURSIVE Mutations(_)
Mutations(cs) ==
    IF cs = <<>> THEN <<>>
    ELSE LET e == Head(cs)
         IN (IF e.dirty /\ ~e.coin.fLoaded
             THEN IF e.coin.out = 0
                  THEN <<BatchEraseOp(CoinEntry(e.outpoint))>>
                  ELSE <<BatchWriteOp(CoinEntry(e.outpoint), [out |-> e.coin.out])>>
             ELSE <<>>) \o Mutations(Tail(cs))

\* C1 as stated: after a crash inside BatchWrite and a restart,
\* GetBestBlock() is the tip before the commit or the new tip.
C1_BestBlockOldOrNew ==
    AfterCrash => GetBestBlock(db) \in {TipBefore, hNew}

\* C1 amended: after a crash inside BatchWrite and a restart, GetBestBlock()
\* is the old tip, the new tip, or the null hash while the head-blocks
\* marker [new, old] is on disk; never anything else.
C1_BestBlockAfterCrash ==
    AfterCrash =>
        \/ GetBestBlock(db) \in {TipBefore, hNew}
        \/ /\ GetBestBlock(db) = NullHash
           /\ HeadBlocksKey \in DOMAIN db
           /\ db[HeadBlocksKey] = <<hNew, TipBefore>>
C1_Witness ==
    /\ AfterCrash
    /\ TipBefore # NullHash /\ hNew # TipBefore
    /\ GetBestBlock(db) = NullHash

\* C2 as stated (invariant I1): the store is steady (best-block key
\* present, no head-blocks key) or transitional (two heads, no best-block
\* key).
C2_TipConsistency == SteadyState(db) \/ TransitionalState(db)

\* C2 amended: the store is steady, transitional, or holds neither tip key
\* (no batch carrying a tip key has been written to it yet).
C2_TipConsistencyOrNoTip ==
    SteadyState(db) \/ TransitionalState(db) \/ NoTipState(db)
C2_Witness ==
    /\ AfterCrash
    /\ TransitionalState(db)
    /\ SteadyState(preDb)

\* C3: at every point of a commit from tip old to tip new (old # new) the
\* disk is (a) steady at old with none of the mutations applied, (c) steady
\* at new with all of them applied, or (b) marked by the head blocks with a
\* prefix of the mutations applied.
C3_CrashConsistency ==
    (InCommit /\ hNew # TipBefore) =>
        LET muts == Mutations(cs0)
            pure == HeadBlocksKey \notin DOMAIN db
        IN IF pure /\ GetBestBlock(db) = hNew
           THEN CoinTable(db) = CoinTable(ApplyBatch(preDb, muts))
           ELSE IF pure /\ GetBestBlock(db) = TipBefore
           THEN CoinTable(db) = CoinTable(preDb)
           ELSE /\ HeadBlocksKey \in DOMAIN db
                /\ \E n \in 0..Len(muts) :
                     CoinTable(db) = CoinTable(ApplyBatch(preDb, SubSeq(muts, 1, n)))

\* C4: a head-blocks marker on disk is the pair [new tip, old tip] of the
\* commit in flight, old tip being the best block before the commit or the
\* second head of the marker the commit found.
C4_MarkerContent ==
    (InCommit /\ HeadBlocksKey \in DOMAIN db) =>
        db[HeadBlocksKey] = <<hNew, TipBefore>>
C4_Witness ==
    /\ pc = "loop"
    /\ TransitionalState(preDb)
    /\ preDb[HeadBlocksKey][2] # NullHash
    /\ flushes # <<>> /\ flushes[1]
    /\ HeadBlocksKey \in DOMAIN db

\* C5: BatchWrite returns true only if every engine write it issued
\* succeeded.
C5_SuccessOnlyIfAllFlushed ==
    (pc = "done" /\ ret) => \A i \in DOMAIN flushes : flushes[i]

\* C6: when BatchWrite returns, the changeset is empty.
C6_ChangesetDrained == pc = "done" => mapCoins = <<>>

\* C7: after BatchWrite returned true, the key of every dirty entry that is
\* not loaded holds the entry's coin (is absent if the coin is spent), and
\* the key of every entry that is not dirty is as before.
C7_CommitEffect ==
    (pc = "done" /\ ret) =>
        \A i \in DOMAIN cs0 :
            LET e == cs0[i]
                k == CoinEntry(e.outpoint)
            IN /\ (e.dirty /\ ~e.coin.fLoaded) =>
                    IF e.coin.out = 0 THEN k \notin DOMAIN db
                    ELSE k \in DOMAIN db /\ db[k] = [out |-> e.coin.out]
               /\ ~e.dirty => SameAt(k, db, preDb)

\* C8: at no point of a commit is the key of an entry flagged loaded
\* written or erased: it holds what it held when BatchWrite was entered.
C8_LoadedNotWrittenBack ==
    pc # "idle" =>
        \A i \in DOMAIN cs0 :
            cs0[i].coin.fLoaded => SameAt(CoinEntry(cs0[i].outpoint), db, preDb)
C8_Witness ==
    /\ pc = "done" /\ ret
    /\ \A i \in DOMAIN flushes : flushes[i]
    /\ \E i \in DOMAIN cs0 :
          /\ cs0[i].coin.fLoaded /\ cs0[i].dirty /\ cs0[i].coin.out # 0
          /\ CoinEntry(cs0[i].outpoint) \notin DOMAIN preDb

\* The assertion of line 121 is due: the store is transitional and the new
\* tip is not the first head.
ResumesOtherTip ==
    /\ BestBlockKey \notin DOMAIN preDb
    /\ HeadBlocksKey \in DOMAIN preDb
    /\ preDb[HeadBlocksKey][1] # hNew

\* C9 as stated: a null new tip aborts BatchWrite with store and changeset
\* untouched, and BatchWrite fails for no other reason than a null tip or
\* a failed engine write.
C9_OnlyNullTipOrEngine ==
    /\ (hNew = NullHash /\ pc # "idle") =>
          pc \in {"aborted", "restarted"} /\ db = preDb
    /\ pc = "aborted" => hNew = NullHash /\ db = preDb /\ mapCoins = cs0
    /\ (pc = "done" /\ ~ret) => \E i \in DOMAIN flushes : ~flushes[i]

\* C9 amended: a null new tip aborts BatchWrite with store and changeset
\* untouched; BatchWrite otherwise fails only on a failed engine write or
\* by the assertion that a transitional store is resumed with the first
\* head as new tip, which aborts it with store and changeset untouched too.
C9_FailureCauses ==
    /\ (hNew = NullHash /\ pc # "idle") =>
          pc \in {"aborted", "restarted"} /\ db = preDb
    /\ pc = "aborted" =>
          /\ hNew = NullHash \/ ResumesOtherTip
          /\ db = preDb /\ mapCoins = cs0 /\ batch = <<>>
    /\ (pc = "done" /\ ~ret) => \E i \in DOMAIN flushes : ~flushes[i]
C9_Witness ==
    /\ pc = "aborted"
    /\ hNew = NullHash
    /\ Len(cs0) = MaxEntries
    /\ SteadyState(db) /\ CoinTable(db) # EmptyDb

C11_SpendRemovesVisibility ==
    (pc = "done" /\ ret) =>
        \A i \in DOMAIN cs0 :
            LET e == cs0[i]
                lk == LoadedKey(GetHash(e.outpoint))
            IN (e.dirty /\ ~e.coin.fLoaded /\ e.coin.out = 0) =>
                  (GetCoin(db, loadedcoindb, e.outpoint).ret =>
                      lk \in DOMAIN loadedcoindb /\ ~loadedcoindb[lk].fSpent)

\* C12: for every outpoint HaveCoin is true exactly when GetCoin returns a
\* coin.
C12_HaveCoinAsGetCoin ==
    \A o \in OutPoints :
        HaveCoin(db, loadedcoindb, o) <=> GetCoin(db, loadedcoindb, o).ret

(* ===================== properties of the migration ==================== *)
\* The legacy keys of a database.
LegacyKeys(d) == { k \in DOMAIN d : k[1] = DB_COINS }
\* The stored legacy record can be read back in full.
Decodable(rec) == Len(rec.outs) >= NumAvail(rec.vAvail, Len(rec.vAvail))
\* The output at position n (from 1) of a stored legacy record.
OutputAt(rec, n) ==
    IF rec.vAvail[n] /\ NumAvail(rec.vAvail, n) <= Len(rec.outs)
    THEN rec.outs[NumAvail(rec.vAvail, n)]
    ELSE NullTxOut
\* The positions of its outputs that are neither null nor unspendable.
SpendablePositions(rec) ==
    { n \in 1..Len(rec.vAvail) :
        OutputAt(rec, n) # NullTxOut /\ OutputAt(rec, n) # UnspendableTxOut }
\* The modern record of the output at position n of the legacy record.
ModernRecord(rec, n) ==
    [out |-> CoinContent(OutputAt(rec, n), rec.nHeight, rec.fCoinBase)]
\* The legacy record under key k of database d0 is converted in d: its key
\* is gone and each of its spendable outputs has its modern record.
Converted(d0, k, d) ==
    /\ k \notin DOMAIN d
    /\ \A n \in SpendablePositions(d0[k]) :
          /\ <<DB_COIN, k[2], n - 1>> \in DOMAIN d
          /\ d[<<DB_COIN, k[2], n - 1>>] = ModernRecord(d0[k], n)
\* It is untouched: its key is there and none of its outputs has a modern
\* record.
Unconverted(d0, k, d) ==
    /\ k \in DOMAIN d /\ d[k] = d0[k]
    /\ \A n \in SpendablePositions(d0[k]) : <<DB_COIN, k[2], n - 1>> \notin DOMAIN d
\* The modern keys the legacy records of d stand for.
MigratedKeys(d) ==
    { <<DB_COIN, k[2], n - 1>> : k \in LegacyKeys(d), n \in 1..MaxVout } \cap
    UNION { { <<DB_COIN, k[2], n - 1>> : n \in SpendablePositions(d[k]) } :
              k \in LegacyKeys(d) }
\* The store a complete migration of d leaves: no legacy key, one modern
\* record per spendable output, every other record as it was.
MigrationOf(d) ==
    [k \in ((DOMAIN d) \ LegacyKeys(d)) \cup MigratedKeys(d) |->
        IF k \in MigratedKeys(d)
        THEN ModernRecord(d[<<DB_COINS, k[2]>>], k[3] + 1)
        ELSE d[k]]

\* C14: when Upgrade returns true the store holds no legacy key and, next
\* to what it held of other records, exactly one modern record per
\* spendable output of the legacy records it was entered with, keyed by
\* (transaction hash, output index) and carrying the record's height and
\* coinbase flag.
C14_MigrationComplete ==
    (pc = "upgraded" /\ ret) =>
        /\ LegacyKeys(db) = {}
        /\ db = MigrationOf(preDb)

\* C15: Upgrade entered on a store without legacy key returns true, has
\* issued no engine write and leaves the store as it was.
C15_NoLegacyNoOp ==
    (pc \in {"upgrade", "upgrade_final", "upgraded"} /\ LegacyKeys(preDb) = {}) =>
        /\ pc = "upgraded" /\ ret
        /\ flushes = <<>>
        /\ db = preDb
\* The second run after a migration that converted records.
C15_Witness ==
    /\ pc = "upgraded" /\ ret
    /\ LegacyKeys(legacyDb) # {}
    /\ LegacyKeys(preDb) = {}
    /\ CoinTable(db) # EmptyDb
    /\ db = MigrationOf(legacyDb)

\* C16: in every state of the store each decodable legacy record of the
\* original table is either untouched (its key present, no modern record
\* of its outputs) or converted (its key gone, the modern record of each
\* spendable output present).
C16_NoLossNoDuplication ==
    \A k \in LegacyKeys(legacyDb) :
        Decodable(legacyDb[k]) =>
            Unconverted(legacyDb, k, db) \/ Converted(legacyDb, k, db)
\* The node shut down on the flag with one record converted and another
\* one not.
C16_Witness ==
    /\ pc = "stopped" /\ cancelled
    /\ \E k1, k2 \in LegacyKeys(legacyDb) :
          /\ SpendablePositions(legacyDb[k1]) # {} /\ Decodable(legacyDb[k1])
          /\ SpendablePositions(legacyDb[k2]) # {} /\ Decodable(legacyDb[k2])
          /\ Converted(legacyDb, k1, db)
          /\ Unconverted(legacyDb, k2, db)

\* C17: a run of Upgrade that returns true after an earlier run was
\* stopped by the shutdown flag leaves the store a single complete
\* migration of the original table leaves.
C17_ResumeCompletes ==
    (pc = "upgraded" /\ ret /\ cancelled) => db = MigrationOf(legacyDb)

\* C18: a run of Upgrade stopped by the shutdown flag has processed the
\* records before the one it stopped at and no other, has written its
\* batch to the engine before returning and returns false; that write
\* accepted, every record it processed is converted on disk.
C18_CancelFlushes ==
    (pc = "upgraded" /\ exit = "cancelled") =>
        LET done == { k \in LegacyKeys(preDb) : KeyLess(k, pcursor) }
        IN /\ ~ret
           /\ count = Cardinality(done)
           /\ flushes # <<>>
           /\ flushes[Len(flushes)] => \A k \in done : Converted(preDb, k, db)

\* C19: the result of a run stopped by the shutdown flag differs from
\* success, and the result of a run that failed on an undecodable record
\* differs from success and from the result of a stopped run.
C19_OutcomesDistinct ==
    pc = "upgraded" =>
        /\ exit = "cancelled" => ret # TRUE /\ ret = UpgradeResult(TRUE)
        /\ exit = "parse" => ret # TRUE /\ ret # UpgradeResult(TRUE)

(* ======================= properties of the cursor ===================== *)
\* Every outpoint a record of the model can stand for.
ScanOutPoints ==
    OutPoints \cup { <<t, n>> : t \in LegacyTxids, n \in 0..(MaxVout - 1) }
\* The encoded keys of the outpoints a scan yielded, in the order yielded.
ScannedKeys == [j \in DOMAIN scanned |-> <<DB_COIN, scanned[j][1], scanned[j][2]>>]

\* C13: a full scan through Cursor() yields keys in strictly increasing
\* order of the encoded key, yields exactly the coin-prefixed records of
\* the store (none of another prefix, none twice), and as many records as
\* there are outpoints whose point lookup in the primary table succeeds.
C13_CursorScan ==
    pc = "scanned" =>
        /\ \A j \in 1..(Len(scanned) - 1) : KeyLess(ScannedKeys[j], ScannedKeys[j + 1])
        /\ { ScannedKeys[j] : j \in DOMAIN scanned } =
              { k \in DOMAIN db : k[1] = DB_COIN }
        /\ Len(scanned) =
              Cardinality({ o \in ScanOutPoints : <<DB_COIN, o[1], o[2]>> \in DOMAIN db })
\* A scan of several coins over a store that also holds a head-blocks
\* marker and a legacy record.
C13_Witness ==
    /\ pc = "scanned"
    /\ Len(scanned) >= 2
    /\ HeadBlocksKey \in DOMAIN db
    /\ LegacyKeys(db) # {}

\* C20: ReadLoadedCoins and Upgrade return success only if every engine
\* batch write they issued succeeded.
C20_WriteFailuresReported ==
    (pc \in {"imported", "upgraded"} /\ ret) => \A j \in DOMAIN flushes : flushes[j]

(* ======================= properties of the import ===================== *)
\* The file asks for a newer reader than this client.
VersionTooNew(file) == ~file.isNull /\ file.nVersionRequired > CLIENT_VERSION
\* The file ends before the number of coins it declares.
FileCutShort(file) == ~file.isNull /\ Len(file.coins) < file.count
\* The overlay after the first n coins of the file were added to ldb.
WithPrefix(ldb, file, n) ==
    LET pre == SubSeq(file.coins, 1, n)
    IN [k \in (DOMAIN ldb) \cup { <<DB_LOADED_COINS, GetHash(pre[j].out)>> : j \in 1..n } |->
          IF \E j \in 1..n : k = <<DB_LOADED_COINS, GetHash(pre[j].out)>>
          THEN LET last == CHOOSE j \in 1..n :
                             /\ k = <<DB_LOADED_COINS, GetHash(pre[j].out)>>
                             /\ \A i \in (j + 1)..n :
                                   k # <<DB_LOADED_COINS, GetHash(pre[i].out)>>
               IN pre[last]
          ELSE ldb[k]]

\* C21: ReadLoadedCoins returns false on a file that asks for a newer
\* reader or ends before its last coin; the overlay has then gained
\* nothing on the version mismatch and otherwise exactly the coins before
\* the last multiple of the batch size not above the number of coins read.
C21_FailedImportKeepsFlushed ==
    (pc = "imported" /\ (VersionTooNew(filein) \/ FileCutShort(filein))) =>
        /\ ~ret
        /\ loadedcoindb =
              WithPrefix(preLoaded, filein,
                         IF VersionTooNew(filein) THEN 0
                         ELSE (Len(filein.coins) \div ImportBatchSize) * ImportBatchSize)

\* The (outpoint, coin, spent flag) records of a vector / of an overlay.
RecordsOf(v) == { v[j] : j \in DOMAIN v }
OverlayRecords(ldb) == { ldb[k] : k \in DOMAIN ldb }

\* C22: what ReadMyLoadedCoins returns, and what a fresh overlay holds
\* after ReadLoadedCoins ran on the file, are exactly the records last
\* handed to WriteMyLoadedCoins.
C22_FileRoundTrip ==
    (vExport.called /\ (vExport.coins # <<>> => vExport.opened)) =>
        /\ pc = "mine" => RecordsOf(vMine) = RecordsOf(vExport.coins)
        /\ (pc = "imported" /\ preLoaded = EmptyDb) =>
              OverlayRecords(loadedcoindb) = RecordsOf(vExport.coins)

(* ==================== properties of the block index =================== *)
\* The block-index keys of a database.
BlockIndexKeys(d) == { k \in DOMAIN d : k[1] = DB_BLOCK_INDEX }

\* C23: after LoadBlockIndexGuts returned true every block-index record
\* has been loaded exactly once, the node of its hash carries its fields,
\* and that node's predecessor link is the node of its predecessor hash.
C23_BlockIndexLoaded ==
    (pc = "indexed" /\ ret) =>
        /\ \A j \in DOMAIN vLoaded : vLoaded[j] \in BlockIndexKeys(blocktree)
        /\ \A k \in BlockIndexKeys(blocktree) :
              LET R == blocktree[k]
              IN /\ Cardinality({ j \in DOMAIN vLoaded : vLoaded[j] = k }) = 1
                 /\ k[2] \in DOMAIN mapBlockIndex
                 /\ mapBlockIndex[k[2]].nHeight = R.nHeight
                 /\ mapBlockIndex[k[2]].nNonce = R.nNonce
                 /\ R.hashPrev \in DOMAIN mapBlockIndex
                 /\ mapBlockIndex[k[2]].pprev = R.hashPrev
\* A load of a block scanned before its predecessor and of a block
\* scanned after it, from a database that holds other records too.
C23_Witness ==
    /\ pc = "indexed" /\ ret
    /\ BlockIndexKeys(blocktree) # DOMAIN blocktree
    /\ \E k1, k2, k3, k4 \in BlockIndexKeys(blocktree) :
          /\ blocktree[k1].hashPrev = k2[2] /\ KeyLess(k1, k2)
          /\ blocktree[k3].hashPrev = k4[2] /\ KeyLess(k4, k3)

(* ===================== properties of the key codec ==================== *)
\* The engine's order of the two serialized keys agrees with the order of
\* their discriminators, and for two coin keys of different hashes with
\* the order of the hash bytes.
GroupedByKind ==
    /\ keyA.key < keyB.key => KeyLess(encA, encB)
    /\ (keyA.key = DB_COIN /\ keyB.key = DB_COIN /\ KeyLess(keyA.hash, keyB.hash)) =>
          KeyLess(encA, encB)

\* C24 as stated: serialized keys order by discriminator first, coin keys
\* then by hash bytes, and coin keys of one hash by output index.
C24_KeyOrdering ==
    pc = "encoded" =>
        /\ GroupedByKind
        /\ (keyA.key = DB_COIN /\ keyB.key = DB_COIN /\ keyA.hash = keyB.hash
              /\ keyA.n < keyB.n) => KeyLess(encA, encB)

\* The first index whose VARINT takes three bytes (16512 in the code).
ThreeByteVarInt == VarIntBase * (VarIntBase + 1)

\* C24 amended: serialized keys order by discriminator first, coin keys
\* then by hash bytes, and coin keys of one hash by output index as long
\* as the larger index is below the first one that takes three bytes.
C24_KeyOrderingSmallIndex ==
    pc = "encoded" =>
        /\ GroupedByKind
        /\ (keyA.key = DB_COIN /\ keyB.key = DB_COIN /\ keyA.hash = keyB.hash
              /\ keyA.n < keyB.n /\ keyB.n < ThreeByteVarInt) => KeyLess(encA, encB)
\* Two coin keys of one hash, a one-byte index against a two-byte index.
C24_Witness ==
    /\ pc = "encoded"
    /\ keyA.key = DB_COIN /\ keyB.key = DB_COIN /\ keyA.hash = keyB.hash
    /\ keyA.n < VarIntBase /\ keyB.n >= VarIntBase /\ keyB.n < ThreeByteVarInt
    /\ Len(encA) < Len(encB)

(* ==================== properties of the commit batch ================== *)
\* BatchWrite is about to process a changeset entry.
AtEntry == pc = "loop" /\ it <= Len(mapCoins)
\* The step folds the entry at the iterator into a batch that thereby
\* outgrows the threshold.
FoldsBeyondThreshold ==
    /\ AtEntry
    /\ ~mapCoins[it].coin.fLoaded
    /\ SizeEstimate(batch \o Mutations(<<mapCoins[it]>>)) > batch_size
    /\ Len(mapCoins') < Len(mapCoins) \/ pc' # "loop"
\* The step hands the batch and the entry to the engine and leaves the
\* loop with an empty batch.
FlushesAndClears ==
    /\ Len(flushes') = Len(flushes) + 1
    /\ db' = IF flushes'[Len(flushes')]
             THEN ApplyBatch(db, batch \o Mutations(<<mapCoins[it]>>))
             ELSE db
    /\ batch' = <<>>
\* The batch holds the two marker operations and nothing else.
OnlyMarker ==
    /\ Len(batch) = 2
    /\ batch[1] = BatchEraseOp(BestBlockKey)
    /\ batch[2].op = "write" /\ batch[2].key = HeadBlocksKey

\* C25 as stated: whenever BatchWrite is about to process an entry the
\* batch's size estimate is within the threshold, and a step that folds an
\* entry into a batch outgrowing the threshold writes the batch to the
\* engine and clears it.
C25_BatchBounded ==
    /\ [](AtEntry => SizeEstimate(batch) <= batch_size)
    /\ [][FoldsBeyondThreshold => FlushesAndClears]_vars

\* C25 amended: whenever BatchWrite is about to process an entry the
\* batch's size estimate is within the threshold or the batch holds only
\* the two marker operations it was opened with; a step that folds an
\* entry into a batch outgrowing the threshold writes the batch to the
\* engine and clears it.
C25_BatchBoundedPastMarker ==
    /\ [](AtEntry => (SizeEstimate(batch) <= batch_size \/ OnlyMarker))
    /\ [][FoldsBeyondThreshold => FlushesAndClears]_vars
\* An entry is about to be processed on top of a batch that holds the
\* marker and an earlier entry, after a batch was flushed.
C25_Witness ==
    /\ AtEntry
    /\ flushes # <<>>
    /\ batch # <<>> /\ SizeEstimate(batch) <= batch_size
    /\ Len(mapCoins) < Len(cs0)

\* The step is the fault-injection hook ending the process.
SimulatedCrashStep == exit # "simcrash" /\ exit' = "simcrash"
\* The step writes a batch that an entry took above the threshold.
IntermediateFlushStep ==
    /\ AtEntry
    /\ SizeEstimate(batch \o Mutations(<<mapCoins[it]>>)) > batch_size
    /\ Len(flushes') = Len(flushes) + 1

\* C26: the fault-injection hook ends the process only in a step that
\* wrote an intermediate batch and only with a non-zero crash ratio, and
\* the store it leaves holds the head-blocks marker [new tip, old tip] and
\* no best-block key.
C26_CrashHook ==
    /\ [][SimulatedCrashStep => (IntermediateFlushStep /\ crash_simulate # 0)]_vars
    /\ []((pc = "crashed" /\ exit = "simcrash") =>
            /\ TransitionalState(db)
            /\ db[HeadBlocksKey] = <<hNew, TipBefore>>)

(* C27: BatchWrite, GetCoin, HaveCoin, Cursor and Upgrade leave the
   overlay table unchanged; only the loaded-coin index writes, made for a
   recorded coin or by the import, modify it. *)
WriteLoadedCoinIndexStep ==
    \/ pc = "idle" /\ pc' = "idle"
    \/ pc = "import"
C27_OverlayFrame ==
    [][loadedcoindb' # loadedcoindb => WriteLoadedCoinIndexStep]_vars
C27_Witness ==
    /\ pc = "done" /\ ret
    /\ loadedcoindb # EmptyDb
    /\ \E j \in DOMAIN cs0 : SkipsEntry(cs0[j])

(* C28: a commit that never crosses the batch threshold issues exactly
   one engine write, holding the marker write, all coin mutations, the
   marker erase and the best-block write: until that write the store is
   the one the commit found, and after it the store is either still that
   one (the engine refused, failure result) or steady at the new tip with
   all mutations applied; from a steady store the marker never becomes
   durable. *)
NeverCrossed ==
    \/ pc = "loop" /\ flushes = <<>>
    \/ pc = "done" /\ Len(flushes) = 1
WholeCommitBatch ==
    <<BatchEraseOp(BestBlockKey), BatchWriteOp(HeadBlocksKey, <<hNew, TipBefore>>)>>
    \o Mutations(cs0)
    \o <<BatchEraseOp(HeadBlocksKey), BatchWriteOp(BestBlockKey, hNew)>>
C28_AtomicCommit ==
    /\ (pc = "loop" /\ flushes = <<>>) => db = preDb
    /\ (pc = "done" /\ Len(flushes) = 1) =>
          /\ batch = WholeCommitBatch
          /\ IF ret
             THEN /\ SteadyState(db)
                  /\ db[BestBlockKey] = hNew
                  /\ CoinTable(db) = CoinTable(ApplyBatch(preDb, Mutations(cs0)))
             ELSE db = preDb
    /\ (NeverCrossed /\ SteadyState(preDb)) => HeadBlocksKey \notin DOMAIN db
C28_Witness ==
    /\ pc = "done" /\ Len(flushes) = 1 /\ ret
    /\ SteadyState(preDb)
    /\ hNew # TipBefore
    /\ Mutations(cs0) # <<>>
    /\ db # preDb

(* C29: BatchWrite started on a transitional store [n, o] with a new
   tip other than n aborts on an assertion before any engine write and
   leaves the store unchanged; the store leaves the transitional state
   only by a write of a commit to n. *)
StartsOnOtherTip ==
    /\ pc = "idle" /\ pc' # "idle"
    /\ TransitionalState(db)
    /\ hNew' # db[HeadBlocksKey][1]
LeavesTransitional == TransitionalState(db) /\ ~TransitionalState(db')
C29_ResumeSameTip ==
    /\ [][StartsOnOtherTip => (pc' = "aborted" /\ db' = db /\ flushes' = <<>>)]_vars
    /\ [](pc = "aborted" => (db = preDb /\ flushes = <<>>))
    /\ [][LeavesTransitional => (pc = "loop" /\ hNew = db[HeadBlocksKey][1])]_vars
C29_Witness ==
    /\ pc = "aborted" /\ exit = "abort"
    /\ TransitionalState(db)
    /\ hNew # NullHash
    /\ hNew # db[HeadBlocksKey][1]

(* C30: whenever Upgrade returns true, the primary store holds no
   record under the legacy prefix. *)
C30_SuccessMeansComplete ==
    (pc = "upgraded" /\ ret) => LegacyKeys(db) = {}

(* C31: when a legacy record cannot be decoded Upgrade returns failure
   at once and issues no engine write for the batch it had accumulated:
   the store stays as the last threshold flush left it, the records of
   the pending batch are still in legacy form, and the undecodable record
   and every legacy record after it are still present. *)
DecodeFailureStep == pc = "upgrade" /\ exit' = "parse"
PendingKeys == { batch[i].key : i \in { j \in DOMAIN batch : batch[j].op = "erase" } }
C31_DecodeFailureDiscards ==
    /\ [][DecodeFailureStep =>
            /\ pc' = "upgraded" /\ ~ret'
            /\ db' = db /\ flushes' = flushes]_vars
    /\ []((pc = "upgraded" /\ exit = "parse") =>
            /\ ~ret
            /\ pcursor \in LegacyKeys(db) /\ ~Decodable(db[pcursor])
            /\ \A k \in PendingKeys : Unconverted(preDb, k, db)
            /\ \A k \in LegacyKeys(preDb) :
                  ~KeyLess(k, pcursor) => (k \in DOMAIN db /\ db[k] = preDb[k]))
C31_Witness ==
    /\ pc = "upgraded" /\ exit = "parse"
    /\ PendingKeys # {}

====
